---- MODULE Spec2Model ----
(***************************************************************************)
(* panopti: the UI controls of a viewer session (panopti/ui/controls.py)   *)
(* and the headless browser handle (panopti/headless.py).                  *)
(*                                                                         *)
(* Python values are tagged records; the tag t is the Python type name.    *)
(* Floats are restricted to integral values (0.0, 1.0, ...), which is      *)
(* enough to tell an int from the float it converts to.                    *)
(***************************************************************************)
EXTENDS Integers, Sequences, FiniteSets, TLC

VARIABLES
    objs,         \* the control objects ever constructed, by object id (1..Len(objs))
    ui_controls,  \* viewer.ui_controls: control name -> object id, 0 when absent
    queue,        \* inbound (control name, payload) events not yet dispatched
    run,          \* the handle_event activations in progress (statement level)
    arrived,      \* number of inbound events that have arrived so far
    handles,      \* the headless browser handles launched, with their Playwright resources
    last          \* what the most recent operation did: payload, outcome, calls, emissions

vars == <<objs, ui_controls, queue, run, arrived, handles, last>>

(***************************************************************************)
(* Python values                                                           *)
(***************************************************************************)
PyNone == [t |-> "NoneType"]
PyBool(b) == [t |-> "bool", b |-> b]
PyInt(n) == [t |-> "int", n |-> n]
PyFloat(n) == [t |-> "float", n |-> n]
PyStr(s) == [t |-> "str", s |-> s]
PyBytes(s) == [t |-> "bytes", s |-> s]
PyList(xs) == [t |-> "list", xs |-> xs]
\* a dict payload {"type": type, key: n}; key = "" when the dict has the type only
PyDict(type, key, n) == [t |-> "dict", type |-> type, key |-> key, n |-> n]
\* io.BytesIO(data): an object with a read() method
BytesIO(s) == [t |-> "BytesIO", s |-> s]
\* numpy float32 array: ndim 0 for a scalar, 1 for a sequence; nan marks array(nan)
NdArray(ndim, xs, nan) == [t |-> "ndarray", ndim |-> ndim, xs |-> xs, nan |-> nan]
\* a raised exception of Python type e
Raise(e) == [t |-> "exception", e |-> e]

IsExc(x) == x.t = "exception"

\* decimal text of the numbers the model uses
Digits == <<"1", "2", "3", "4", "5", "6", "7", "8", "9">>
IntText(n) == IF n = 0 THEN "0" ELSE Digits[n]

\* the strings float() parses, with the number each denotes
NumericStrings == {"0", "1", "1.0"}
ParseNumber(s) == IF s = "0" THEN 0 ELSE 1

\* Python float(v)
float(v) ==
    CASE v.t = "float" -> v
      [] v.t = "int" -> PyFloat(v.n)
      [] v.t = "bool" -> PyFloat(IF v.b THEN 1 ELSE 0)
      [] v.t = "str" -> IF v.s \in NumericStrings THEN PyFloat(ParseNumber(v.s))
                         ELSE Raise("ValueError")
      [] OTHER -> Raise("TypeError")

\* Python bool(v): truthiness, never raises on a payload
bool(v) ==
    CASE v.t = "bool" -> v
      [] v.t = "NoneType" -> PyBool(FALSE)
      [] v.t \in {"int", "float"} -> PyBool(v.n # 0)
      [] v.t \in {"str", "bytes"} -> PyBool(v.s # "")
      [] v.t = "list" -> PyBool(v.xs # <<>>)
      [] OTHER -> PyBool(TRUE)

RECURSIVE ListText(_)
ListText(xs) ==
    IF xs = <<>> THEN ""
    ELSE IF Len(xs) = 1 THEN IntText(xs[1])
    ELSE IntText(xs[1]) \o ", " \o ListText(Tail(xs))

\* Python str(v): never raises on a payload
str(v) ==
    CASE v.t = "str" -> v
      [] v.t = "NoneType" -> PyStr("None")
      [] v.t = "bool" -> PyStr(IF v.b THEN "True" ELSE "False")
      [] v.t = "int" -> PyStr(IntText(v.n))
      [] v.t = "float" -> PyStr(IntText(v.n) \o ".0")
      [] v.t = "list" -> PyStr("[" \o ListText(v.xs) \o "]")
      [] v.t = "dict" -> PyStr("{'type': '" \o v.type \o "'}")
      [] OTHER -> PyStr("<object>")

\* numpy.asarray(v, dtype=numpy.float32)
np_asarray(v) ==
    CASE v.t = "list" -> NdArray(1, v.xs, FALSE)
      [] v.t \in {"int", "float"} -> NdArray(0, <<v.n>>, FALSE)
      [] v.t = "bool" -> NdArray(0, <<IF v.b THEN 1 ELSE 0>>, FALSE)
      [] v.t = "NoneType" -> NdArray(0, <<>>, TRUE)
      [] v.t = "str" -> IF v.s \in NumericStrings
                         THEN NdArray(0, <<ParseNumber(v.s)>>, FALSE)
                         ELSE Raise("ValueError")
      [] OTHER -> Raise("TypeError")

\* result.read(): only file-like objects have it
read(v) == IF v.t = "BytesIO" THEN PyBytes(v.s) ELSE Raise("AttributeError")

\* Python bytes(v) for the results a download callback may return
bytes(v) == IF v.t = "bytes" THEN v ELSE Raise("TypeError")

(***************************************************************************)
(* Controls: one record per object, fields named as the attributes         *)
(***************************************************************************)
Viewer == [t |-> "Viewer"]

\* UIControl.__init__ and each subclass's __init__
Group(name, collapsed) ==
    [kind |-> "group", name |-> name, group |-> PyNone,
     collapsed |-> collapsed, controls |-> <<>>]

Slider(callback, name, min, max, step, initial, description) ==
    [kind |-> "slider", name |-> name, group |-> PyNone, callback |-> callback,
     min |-> min, max |-> max, step |-> step, initial |-> initial,
     description |-> description, current_value |-> initial]

Button(callback, name) ==
    [kind |-> "button", name |-> name, group |-> PyNone, callback |-> callback]

Label(callback, name, text) ==
    [kind |-> "label", name |-> name, group |-> PyNone, callback |-> callback,
     text |-> text]

Checkbox(callback, name, initial, description) ==
    [kind |-> "checkbox", name |-> name, group |-> PyNone, callback |-> callback,
     initial |-> initial, description |-> description, checked |-> initial]

Dropdown(callback, name, options, initial, description) ==
    LET init == IF initial # PyNone THEN initial
                ELSE IF options # <<>> THEN PyStr(options[1]) ELSE PyStr("")
    IN [kind |-> "dropdown", name |-> name, group |-> PyNone, callback |-> callback,
        options |-> options, initial |-> init, description |-> description,
        current_value |-> init]

DownloadButton(callback, name, filename) ==
    [kind |-> "download_button", name |-> name, group |-> PyNone,
     callback |-> callback, filename |-> filename]

ColorPicker(callback, name, initial) ==
    [kind |-> "color_picker", name |-> name, group |-> PyNone, callback |-> callback,
     initial |-> np_asarray(initial), current_value |-> np_asarray(initial)]

PlotlyPlot(spec, name) ==
    [kind |-> "plotly", name |-> name, group |-> PyNone, spec |-> spec]

ImageGallery(name, images, thumbnail_size, columns, rows_per_page, callback) ==
    [kind |-> "image_gallery", name |-> name, group |-> PyNone, callback |-> callback,
     thumbnail_size |-> thumbnail_size, columns |-> columns,
     rows_per_page |-> rows_per_page, selected_index |-> PyNone,
     current_page |-> PyInt(0), images |-> images]

\* value() of each class
value(c) ==
    CASE c.kind = "group" -> PyBool(c.collapsed)
      [] c.kind \in {"slider", "dropdown", "color_picker"} -> c.current_value
      [] c.kind \in {"button", "download_button"} -> PyInt(0)
      [] c.kind = "label" -> c.text
      [] c.kind = "checkbox" -> c.checked
      [] c.kind = "plotly" -> c.spec
      [] c.kind = "image_gallery" -> c.selected_index

\* the viewer of the session has a viewer_id
viewer_id == PyStr("client")

\* UIControl._add_common_fields
add_common_fields(c, data) ==
    (IF c.group # PyNone THEN [group |-> c.group] ELSE <<>>)
        @@ [viewer_id |-> viewer_id] @@ data

\* mutant: the envelope carries the current value in place of the initial one
to_dict_Current(c) ==
    LET ids == [id |-> c.name, name |-> c.name] IN
    CASE c.kind = "group" ->
            [viewer_id |-> viewer_id] @@ ids
                @@ [type |-> "group", collapsed |-> c.collapsed, controls |-> c.controls]
      [] c.kind = "slider" ->
            add_common_fields(c, ids @@
                [type |-> "slider", min |-> float(c.min), max |-> float(c.max),
                 step |-> float(c.step), initial |-> float(c.current_value),
                 description |-> c.description])
      [] c.kind = "button" -> add_common_fields(c, ids @@ [type |-> "button"])
      [] c.kind = "label" ->
            add_common_fields(c, ids @@ [type |-> "label", text |-> c.text])
      [] c.kind = "checkbox" ->
            add_common_fields(c, ids @@
                [type |-> "checkbox", initial |-> bool(c.checked),
                 description |-> c.description])
      [] c.kind = "dropdown" ->
            add_common_fields(c, ids @@
                [type |-> "dropdown", options |-> c.options, initial |-> str(c.current_value),
                 description |-> c.description])
      [] c.kind = "download_button" ->
            add_common_fields(c, ids @@ [type |-> "download_button"])
      [] c.kind = "color_picker" ->
            add_common_fields(c, ids @@ [type |-> "color_picker", initial |-> c.current_value])
      [] c.kind = "plotly" ->
            add_common_fields(c, ids @@ [type |-> "plotly", spec |-> c.spec])
      [] c.kind = "image_gallery" ->
            add_common_fields(c,
                (IF c.rows_per_page # PyNone THEN [rows_per_page |-> c.rows_per_page]
                 ELSE <<>>) @@ ids @@
                [type |-> "image_gallery", images |-> c.images,
                 thumbnail_size |-> c.thumbnail_size, columns |-> c.columns])

\* to_dict() of each class
to_dict(c) ==
    LET ids == [id |-> c.name, name |-> c.name] IN
    CASE c.kind = "group" ->
            [viewer_id |-> viewer_id] @@ ids
                @@ [type |-> "group", collapsed |-> c.collapsed, controls |-> c.controls]
      [] c.kind = "slider" ->
            add_common_fields(c, ids @@
                [type |-> "slider", min |-> float(c.min), max |-> float(c.max),
                 step |-> float(c.step), initial |-> float(c.initial),
                 description |-> c.description])
      [] c.kind = "button" -> add_common_fields(c, ids @@ [type |-> "button"])
      [] c.kind = "label" ->
            add_common_fields(c, ids @@ [type |-> "label", text |-> c.text])
      [] c.kind = "checkbox" ->
            add_common_fields(c, ids @@
                [type |-> "checkbox", initial |-> bool(c.initial),
                 description |-> c.description])
      [] c.kind = "dropdown" ->
            add_common_fields(c, ids @@
                [type |-> "dropdown", options |-> c.options, initial |-> str(c.initial),
                 description |-> c.description])
      [] c.kind = "download_button" ->
            add_common_fields(c, ids @@ [type |-> "download_button"])
      [] c.kind = "color_picker" ->
            add_common_fields(c, ids @@ [type |-> "color_picker", initial |-> c.initial])
      [] c.kind = "plotly" ->
            add_common_fields(c, ids @@ [type |-> "plotly", spec |-> c.spec])
      [] c.kind = "image_gallery" ->
            add_common_fields(c,
                (IF c.rows_per_page # PyNone THEN [rows_per_page |-> c.rows_per_page]
                 ELSE <<>>) @@ ids @@
                [type |-> "image_gallery", images |-> c.images,
                 thumbnail_size |-> c.thumbnail_size, columns |-> c.columns])

(***************************************************************************)
(* Outbound emissions (viewer.socket_manager) and application callbacks    *)
(***************************************************************************)
emit_delete_control(name) == [emit |-> "delete_control", name |-> name]
emit_update_label(name, text) == [emit |-> "update_label", name |-> name, text |-> text]
emit_download_file(data, filename) ==
    [emit |-> "download_file", data |-> data, filename |-> filename]
emit_update_image_gallery(name, images) ==
    [emit |-> "update_image_gallery", name |-> name, images |-> images]

\* What one invocation of an application callback does: it returns result, or
\* raises when result is an exception; with effect "delete_self" it first calls
\* delete() on the control it is bound to.
Callback(effect, result) == [effect |-> effect, result |-> result]

\* mutant: the entry is left in place
delete_entry_Keep(ui, name) == ui

\* UIControl.delete, lines 31-32: the registry without the entry under the name
delete_entry(ui, name) == IF ui[name] # 0 THEN [ui EXCEPT ![name] = 0] ELSE ui

\* self.callback(*args) with the control state os committed so far: the call as the
\* application sees it, and what it leaves behind
Invoke(os, ui, o, args, cb) ==
    [call |-> [args |-> args, seen |-> value(os[o]), effect |-> cb.effect,
               result |-> cb.result],
     result |-> cb.result,
     ui |-> IF cb.effect = "delete_self" THEN delete_entry(ui, os[o].name) ELSE ui,
     emits |-> IF cb.effect = "delete_self"
               THEN <<emit_delete_control(os[o].name)>> ELSE <<>>]

\* the record of a finished operation on object o
Done(op, o, payload, outcome, ret, calls, emits) ==
    [op |-> op, o |-> o, payload |-> payload, pre |-> objs[o], ui |-> ui_controls,
     outcome |-> outcome, ret |-> ret, calls |-> calls, emits |-> emits]

\* an operation on o that decoded and stored: the state was committed as os, then the
\* callback, if bound, ran as cb with args; its result is returned when forwards
Finish(op, o, payload, os, args, cb, forwards) ==
    IF ~objs[o].callback
    THEN /\ objs' = os
         /\ ui_controls' = ui_controls
         /\ last' = Done(op, o, payload, "returned", PyNone, <<>>, <<>>)
    ELSE LET i == Invoke(os, ui_controls, o, args, cb) IN
         /\ objs' = os
         /\ ui_controls' = i.ui
         /\ last' = IF IsExc(i.result)
                    THEN Done(op, o, payload, "CallbackError", i.result, <<i.call>>, i.emits)
                    ELSE Done(op, o, payload, "returned",
                              IF forwards THEN i.result ELSE PyNone, <<i.call>>, i.emits)

\* a handle_event whose decoding raised exc: nothing is stored, nothing is called
DecodeFailed(o, payload, exc) ==
    /\ UNCHANGED <<objs, ui_controls>>
    /\ last' = Done("handle_event", o, payload, "DecodeError", exc, <<>>, <<>>)

(***************************************************************************)
(* handle_event of each class, called with payload v; cb is what the       *)
(* callback does if it is invoked                                          *)
(***************************************************************************)
Group_handle_event(o, v, cb) ==
    /\ objs[o].kind = "group"
    /\ UNCHANGED <<objs, ui_controls>>
    /\ last' = Done("handle_event", o, v, "returned", PyNone, <<>>, <<>>)

\* mutant: the callback runs before the decoded value is stored
Slider_handle_event_CallbackFirst(o, v, cb) ==
    /\ objs[o].kind = "slider"
    /\ LET d == float(v)
           i == Invoke(objs, ui_controls, o, <<Viewer, d>>, cb)
       IN IF IsExc(d) THEN DecodeFailed(o, v, d)
          ELSE IF ~objs[o].callback
          THEN Finish("handle_event", o, v, [objs EXCEPT ![o].current_value = d],
                      <<Viewer, d>>, cb, TRUE)
          ELSE /\ objs' = IF IsExc(i.result) THEN objs
                          ELSE [objs EXCEPT ![o].current_value = d]
               /\ ui_controls' = i.ui
               /\ last' = IF IsExc(i.result)
                          THEN Done("handle_event", o, v, "CallbackError", i.result,
                                    <<i.call>>, i.emits)
                          ELSE Done("handle_event", o, v, "returned", i.result,
                                    <<i.call>>, i.emits)

Slider_handle_event(o, v, cb) ==
    /\ objs[o].kind = "slider"
    /\ LET d == float(v) IN
       IF IsExc(d) THEN DecodeFailed(o, v, d)
       ELSE Finish("handle_event", o, v, [objs EXCEPT ![o].current_value = d],
                   <<Viewer, d>>, cb, TRUE)

\* the callback's result is not returned
Button_handle_event(o, v, cb) ==
    /\ objs[o].kind = "button"
    /\ Finish("handle_event", o, v, objs, <<Viewer>>, cb, FALSE)

Label_handle_event(o, v, cb) ==
    /\ objs[o].kind = "label"
    /\ UNCHANGED <<objs, ui_controls>>
    /\ last' = Done("handle_event", o, v, "returned", PyNone, <<>>, <<>>)

\* mutant: the emission is skipped when the text did not change
Label_update_IfChanged(o, text, cb) ==
    /\ objs[o].kind = "label"
    /\ LET os == [objs EXCEPT ![o].text = text]
           i == Invoke(os, ui_controls, o, <<Viewer>>, cb)
           out == IF objs[o].text = text THEN <<>>
                  ELSE <<emit_update_label(objs[o].name, text)>>
       IN IF ~objs[o].callback
          THEN /\ objs' = os
               /\ ui_controls' = ui_controls
               /\ last' = Done("update", o, text, "returned", PyNone, <<>>, out)
          ELSE /\ objs' = os
               /\ ui_controls' = i.ui
               /\ last' = IF IsExc(i.result)
                          THEN Done("update", o, text, "CallbackError", i.result,
                                    <<i.call>>, i.emits)
                          ELSE Done("update", o, text, "returned", PyNone, <<i.call>>,
                                    i.emits \o out)

Label_update(o, text, cb) ==
    /\ objs[o].kind = "label"
    /\ LET os == [objs EXCEPT ![o].text = text]
           i == Invoke(os, ui_controls, o, <<Viewer>>, cb)
       IN IF ~objs[o].callback
          THEN /\ objs' = os
               /\ ui_controls' = ui_controls
               /\ last' = Done("update", o, text, "returned", PyNone, <<>>,
                               <<emit_update_label(objs[o].name, text)>>)
          ELSE /\ objs' = os
               /\ ui_controls' = i.ui
               /\ last' = IF IsExc(i.result)
                          THEN Done("update", o, text, "CallbackError", i.result,
                                    <<i.call>>, i.emits)
                          ELSE Done("update", o, text, "returned", PyNone, <<i.call>>,
                                    i.emits \o <<emit_update_label(objs[o].name, text)>>)

Checkbox_handle_event(o, v, cb) ==
    /\ objs[o].kind = "checkbox"
    /\ Finish("handle_event", o, v, [objs EXCEPT ![o].checked = bool(v)],
              <<Viewer, bool(v)>>, cb, TRUE)

Dropdown_handle_event(o, v, cb) ==
    /\ objs[o].kind = "dropdown"
    /\ Finish("handle_event", o, v, [objs EXCEPT ![o].current_value = str(v)],
              <<Viewer, str(v)>>, cb, TRUE)

\* mutant: no fallback to bytes(result) for a result without read()
download_data_ReadOnly(result) == read(result)

\* lines 239-242: the data to emit for a callback result, or the exception raised
download_data(result) ==
    IF IsExc(read(result)) THEN bytes(result) ELSE read(result)

DownloadButton_handle_event(o, v, cb) ==
    /\ objs[o].kind = "download_button"
    /\ LET i == Invoke(objs, ui_controls, o, <<Viewer>>, cb) IN
       IF ~objs[o].callback
       THEN /\ UNCHANGED <<objs, ui_controls>>
            /\ last' = Done("handle_event", o, v, "returned", PyNone, <<>>, <<>>)
       ELSE /\ objs' = objs
            /\ ui_controls' = i.ui
            /\ last' =
                 IF IsExc(i.result)
                 THEN Done("handle_event", o, v, "CallbackError", i.result,
                           <<i.call>>, i.emits)
                 ELSE IF i.result = PyNone
                 THEN Done("handle_event", o, v, "returned", PyNone, <<i.call>>, i.emits)
                 ELSE IF IsExc(download_data(i.result))
                 THEN Done("handle_event", o, v, "Error", download_data(i.result),
                           <<i.call>>, i.emits)
                 ELSE Done("handle_event", o, v, "returned", PyNone, <<i.call>>,
                           i.emits \o <<emit_download_file(download_data(i.result),
                                                           objs[o].filename)>>)

ColorPicker_handle_event(o, v, cb) ==
    /\ objs[o].kind = "color_picker"
    /\ LET d == np_asarray(v) IN
       IF IsExc(d) THEN DecodeFailed(o, v, d)
       ELSE Finish("handle_event", o, v, [objs EXCEPT ![o].current_value = d],
                   <<Viewer, d>>, cb, TRUE)

PlotlyPlot_handle_event(o, v, cb) ==
    /\ objs[o].kind = "plotly"
    /\ UNCHANGED <<objs, ui_controls>>
    /\ last' = Done("handle_event", o, v, "returned", PyNone, <<>>, <<>>)

\* mutant: a click also goes back to the first page
ImageGallery_handle_event_ResetPage(o, v, cb) ==
    /\ objs[o].kind = "image_gallery"
    /\ IF v.t = "dict" /\ v.type = "imageClick" /\ v.key = "index"
       THEN Finish("handle_event", o, v,
                   [objs EXCEPT ![o].selected_index = PyInt(v.n),
                                ![o].current_page = PyInt(0)],
                   <<Viewer, PyInt(v.n)>>, cb, TRUE)
       ELSE IF v.t = "dict" /\ v.type = "pageChange" /\ v.key = "page"
       THEN /\ objs' = [objs EXCEPT ![o].current_page = PyInt(v.n)]
            /\ ui_controls' = ui_controls
            /\ last' = Done("handle_event", o, v, "returned", PyNone, <<>>, <<>>)
       ELSE /\ UNCHANGED <<objs, ui_controls>>
            /\ last' = Done("handle_event", o, v, "returned", PyNone, <<>>, <<>>)

\* value.get(key) of a dict payload
get(v, key) == IF v.key = key THEN PyInt(v.n) ELSE PyNone

ImageGallery_handle_event(o, v, cb) ==
    /\ objs[o].kind = "image_gallery"
    /\ IF v.t = "dict" /\ v.type = "imageClick" /\ get(v, "index") # PyNone
       THEN Finish("handle_event", o, v,
                   [objs EXCEPT ![o].selected_index = get(v, "index")],
                   <<Viewer, get(v, "index")>>, cb, TRUE)
       ELSE IF v.t = "dict" /\ v.type = "pageChange" /\ get(v, "page") # PyNone
       THEN /\ objs' = [objs EXCEPT ![o].current_page = get(v, "page")]
            /\ ui_controls' = ui_controls
            /\ last' = Done("handle_event", o, v, "returned", PyNone, <<>>, <<>>)
       ELSE /\ UNCHANGED <<objs, ui_controls>>
            /\ last' = Done("handle_event", o, v, "returned", PyNone, <<>>, <<>>)

\* a numpy image array: ndim = len(img.shape), channels = img.shape[2] (0 when ndim
\* is not 3), id names the pixels
Image(ndim, channels, id) == [t |-> "image", ndim |-> ndim, channels |-> channels, id |-> id]

\* lines 362-403: the encoded string of one image, or the exception raised for it
process_image(img) ==
    CASE img.t = "str" -> img
      [] img.t = "image" /\ img.ndim = 2 -> PyStr("data:image/png;base64," \o img.id)
      [] img.t = "image" /\ img.ndim = 3 /\ img.channels \in {3, 4} ->
            PyStr("data:image/png;base64," \o img.id)
      [] OTHER -> Raise("ValueError")

\* lines 359-407: the list of the encoded strings of the images xs, or the exception
\* raised for the first image that cannot be encoded
RECURSIVE process_list(_)
process_list(xs) ==
    IF xs = <<>> THEN PyList(<<>>)
    ELSE IF IsExc(process_image(Head(xs))) THEN process_image(Head(xs))
    ELSE IF IsExc(process_list(Tail(xs))) THEN process_list(Tail(xs))
    ELSE PyList(<<process_image(Head(xs)).s>> \o process_list(Tail(xs)).xs)

\* ImageGallery._process_images: a single image is taken as a list of one
process_images(images) ==
    process_list(IF images.t = "list" THEN images.xs ELSE <<images>>)

\* mutant: the selection is kept across an update
ImageGallery_update_KeepSelection(o, images) ==
    /\ objs[o].kind = "image_gallery"
    /\ ui_controls' = ui_controls
    /\ IF IsExc(process_images(images))
       THEN /\ objs' = objs
            /\ last' = Done("ImageGallery.update", o, images, "Error",
                            process_images(images), <<>>, <<>>)
       ELSE /\ objs' = [objs EXCEPT ![o].images = process_images(images).xs,
                                    ![o].current_page = PyInt(0)]
            /\ last' = Done("ImageGallery.update", o, images, "returned", PyNone, <<>>,
                            <<emit_update_image_gallery(objs[o].name,
                                                        process_images(images).xs)>>)

\* mutant: the selection and the page are reset before the images are encoded
ImageGallery_update_ResetFirst(o, images) ==
    /\ objs[o].kind = "image_gallery"
    /\ ui_controls' = ui_controls
    /\ IF IsExc(process_images(images))
       THEN /\ objs' = [objs EXCEPT ![o].selected_index = PyNone,
                                    ![o].current_page = PyInt(0)]
            /\ last' = Done("ImageGallery.update", o, images, "Error",
                            process_images(images), <<>>, <<>>)
       ELSE /\ objs' = [objs EXCEPT ![o].images = process_images(images).xs,
                                    ![o].selected_index = PyNone,
                                    ![o].current_page = PyInt(0)]
            /\ last' = Done("ImageGallery.update", o, images, "returned", PyNone, <<>>,
                            <<emit_update_image_gallery(objs[o].name,
                                                        process_images(images).xs)>>)

\* ImageGallery.update
ImageGallery_update(o, images) ==
    /\ objs[o].kind = "image_gallery"
    /\ ui_controls' = ui_controls
    /\ IF IsExc(process_images(images))
       THEN /\ objs' = objs
            /\ last' = Done("ImageGallery.update", o, images, "Error",
                            process_images(images), <<>>, <<>>)
       ELSE /\ objs' = [objs EXCEPT ![o].images = process_images(images).xs,
                                    ![o].selected_index = PyNone,
                                    ![o].current_page = PyInt(0)]
            /\ last' = Done("ImageGallery.update", o, images, "returned", PyNone, <<>>,
                            <<emit_update_image_gallery(objs[o].name,
                                                        process_images(images).xs)>>)

(***************************************************************************)
(* Spec: one control, constructed and registered, receiving handle_event   *)
(* and update calls                                                        *)
(***************************************************************************)
Names == {"a", "b"}

\* inbound payloads: every shape of section 6 and values of the wrong shape
Payloads ==
    {PyNone, PyBool(TRUE), PyBool(FALSE), PyInt(1), PyFloat(0), PyStr("1"), PyStr("abc"),
     PyList(<<1, 0, 0, 1>>), PyList(<<1, 0>>),
     PyDict("imageClick", "index", 0), PyDict("imageClick", "index", 5),
     PyDict("pageChange", "page", 1), PyDict("imageClick", "", 0)}

\* what a callback may do when invoked
Callbacks == {Callback("none", r) : r \in {PyNone, PyStr("ok"), Raise("RuntimeError")}}

DownloadCallbacks ==
    {Callback("none", r) : r \in {PyNone, PyBytes(""), PyBytes("data"), BytesIO("data"),
                                   PyStr("text"), Raise("RuntimeError")}}

Texts == {PyStr(""), PyStr("hi")}

\* arguments of ImageGallery.update: lists and single images, encoded strings and
\* arrays, with arrays and objects that cannot be encoded
Images ==
    {PyList(<<>>), PyStr("data:2"), PyList(<<PyStr("data:0"), Image(2, 0, "gray")>>),
     Image(3, 3, "rgb"), PyList(<<PyStr("data:0"), Image(3, 2, "two")>>), PyNone}

InitialControls ==
    UNION { {Slider(cb, "a", PyFloat(0), PyFloat(1), PyFloat(1), PyFloat(0), ""),
             Slider(cb, "a", PyInt(0), PyInt(1), PyInt(1), PyInt(1), "scale"),
             Checkbox(cb, "a", PyBool(FALSE), ""), Checkbox(cb, "a", PyBool(TRUE), ""),
             Dropdown(cb, "a", <<"x", "y">>, PyNone, ""),
             Dropdown(cb, "a", <<"x", "y">>, PyStr("y"), ""),
             ColorPicker(cb, "a", PyList(<<0, 0, 0, 1>>)),
             Button(cb, "a"), Label(cb, "a", PyStr("")),
             DownloadButton(cb, "a", "download.bin"),
             ImageGallery("a", <<"data:0", "data:1">>, PyInt(1), PyInt(3), PyNone, cb)}
            : cb \in BOOLEAN }
    \cup {PlotlyPlot(PyDict("figure", "", 0), "a"), Group("a", FALSE)}

NoOp(ui) ==
    [op |-> "none", o |-> 0, payload |-> PyNone, pre |-> PyNone, ui |-> ui,
     outcome |-> "returned", ret |-> PyNone, calls |-> <<>>, emits |-> <<>>]

Init ==
    /\ objs \in {<<c>> : c \in InitialControls}
    /\ ui_controls = [n \in Names |-> IF n = "a" THEN 1 ELSE 0]
    /\ queue = <<>>
    /\ run = {}
    /\ arrived = 0
    /\ handles = <<>>
    /\ last = NoOp(ui_controls)

\* the call is made directly, not by the dispatcher
Direct == UNCHANGED <<queue, run, arrived, handles>>

Next ==
    \/ \E v \in Payloads, cb \in Callbacks : Group_handle_event(1, v, cb) /\ Direct
    \/ \E v \in Payloads, cb \in Callbacks : Slider_handle_event(1, v, cb) /\ Direct
    \/ \E v \in Payloads, cb \in Callbacks : Button_handle_event(1, v, cb) /\ Direct
    \/ \E v \in Payloads, cb \in Callbacks : Label_handle_event(1, v, cb) /\ Direct
    \/ \E t \in Texts, cb \in Callbacks : Label_update(1, t, cb) /\ Direct
    \/ \E v \in Payloads, cb \in Callbacks : Checkbox_handle_event(1, v, cb) /\ Direct
    \/ \E v \in Payloads, cb \in Callbacks : Dropdown_handle_event(1, v, cb) /\ Direct
    \/ \E v \in Payloads, cb \in DownloadCallbacks :
           DownloadButton_handle_event(1, v, cb) /\ Direct
    \/ \E v \in Payloads, cb \in Callbacks : ColorPicker_handle_event(1, v, cb) /\ Direct
    \/ \E v \in Payloads, cb \in Callbacks : PlotlyPlot_handle_event(1, v, cb) /\ Direct
    \/ \E v \in Payloads, cb \in Callbacks : ImageGallery_handle_event(1, v, cb) /\ Direct
    \/ \E images \in Images : ImageGallery_update(1, images) /\ Direct

Spec == Init /\ [][Next]_vars

(***************************************************************************)
(* Properties of one control (Spec)                                        *)
(***************************************************************************)
ValueKinds == {"slider", "checkbox", "dropdown", "color_picker"}

\* the conversion each value control applies to its payload (lines 87, 173, 206, 268)
decode(kind, v) ==
    CASE kind = "slider" -> float(v)
      [] kind = "checkbox" -> bool(v)
      [] kind = "dropdown" -> str(v)
      [] kind = "color_picker" -> np_asarray(v)

\* the inbound payload shape each variant declares; the variants that ignore their
\* payload (Button, DownloadButton, Label, PlotlyPlot, Group) accept any
ValidShape(kind, v) ==
    CASE kind = "slider" -> v.t \in {"int", "float"}
      [] kind = "checkbox" -> v.t = "bool"
      [] kind = "dropdown" -> v.t = "str"
      [] kind = "color_picker" -> v.t = "list" /\ Len(v.xs) = 4
      [] kind = "image_gallery" ->
            /\ v.t = "dict"
            /\ \/ v.type = "imageClick" /\ v.key = "index"
               \/ v.type = "pageChange" /\ v.key = "page"
      [] OTHER -> TRUE

\* the last operation was handle_event on a value control
ValueEvent == last.op = "handle_event" /\ last.pre.kind \in ValueKinds

\* C1: after handle_event on a Slider, Checkbox, Dropdown or ColorPicker, value() is
\* the decoding of the payload when the payload has the declared shape, and is the
\* pre-event value when it has not (so value() is always the decoding of the most
\* recent valid payload, or the initial value).
C1_ValueIsLastValidDecode ==
    ValueEvent =>
        IF ValidShape(last.pre.kind, last.payload)
        THEN value(objs[last.o]) = decode(last.pre.kind, last.payload)
        ELSE value(objs[last.o]) = value(last.pre)

\* C2: the decoded value is stored before the callback is invoked: the callback
\* observes value() = decode(v), and when it raises the error reaches the caller and
\* value() is decode(v).
C2_CommittedBeforeCallback ==
    (ValueEvent /\ last.calls # <<>>) =>
        /\ last.calls[1].seen = decode(last.pre.kind, last.payload)
        /\ IsExc(last.calls[1].result) =>
              /\ last.outcome = "CallbackError"
              /\ last.ret = last.calls[1].result
              /\ value(objs[last.o]) = decode(last.pre.kind, last.payload)

\* a callback raised after a handle_event that changed the value
C2_Witness ==
    /\ ValueEvent
    /\ last.outcome = "CallbackError"
    /\ value(objs[last.o]) # value(last.pre)

\* C3: handle_event with a payload that does not have the variant's declared shape
\* fails with a decode error: it is neither applied nor ignored.
C3_MalformedPayloadFails ==
    (last.op = "handle_event" /\ ~ValidShape(last.pre.kind, last.payload)) =>
        last.outcome = "DecodeError"

\* C8: DownloadButton.handle_event invokes the bound callback once, with the session
\* only; a callback returning None leads to no emit_download_file, a callback
\* returning bytes to exactly one, carrying those bytes and the configured filename.
C8_DownloadEmission ==
    (last.op = "handle_event" /\ last.pre.kind = "download_button" /\ last.pre.callback) =>
        /\ Len(last.calls) = 1
        /\ last.calls[1].args = <<Viewer>>
        /\ last.calls[1].result = PyNone => last.emits = <<>>
        /\ last.calls[1].result.t = "bytes" =>
              last.emits = <<emit_download_file(last.calls[1].result, last.pre.filename)>>

\* the callback returned bytes and one file was emitted
C8_Witness ==
    /\ last.op = "handle_event"
    /\ last.pre.kind = "download_button"
    /\ last.calls # <<>>
    /\ last.calls[1].result = PyBytes("data")
    /\ Len(last.emits) = 1

GalleryEvent(type, key) ==
    /\ last.op = "handle_event"
    /\ last.pre.kind = "image_gallery"
    /\ last.payload.t = "dict"
    /\ last.payload.type = type
    /\ last.payload.key = key

\* C13: ImageGallery.handle_event on an imageClick event stores index as
\* selected_index, leaves current_page as it was and, if a callback is bound, invokes
\* it once with (session, index) and returns its result; on a pageChange event it
\* stores page as current_page, leaves selected_index as it was, invokes no callback
\* and returns None.
C13_GalleryEvents ==
    /\ GalleryEvent("imageClick", "index") =>
          /\ objs[last.o].selected_index = PyInt(last.payload.n)
          /\ objs[last.o].current_page = last.pre.current_page
          /\ IF last.pre.callback
             THEN /\ Len(last.calls) = 1
                  /\ last.calls[1].args = <<Viewer, PyInt(last.payload.n)>>
                  /\ last.outcome = "returned" => last.ret = last.calls[1].result
             ELSE last.calls = <<>> /\ last.ret = PyNone
    /\ GalleryEvent("pageChange", "page") =>
          /\ objs[last.o].current_page = PyInt(last.payload.n)
          /\ objs[last.o].selected_index = last.pre.selected_index
          /\ last.calls = <<>>
          /\ last.ret = PyNone
          /\ last.outcome = "returned"

\* a click on the first image while page 1 is shown, whose callback returned "ok"
C13_Witness ==
    /\ GalleryEvent("imageClick", "index")
    /\ last.payload.n = 0
    /\ last.pre.current_page = PyInt(1)
    /\ last.pre.selected_index # PyInt(0)
    /\ last.ret = PyStr("ok")

\* C14: an ImageGallery.update(images) that returns leaves selected_index unset and
\* current_page 0, so that value() is None, leaves as the image sequence the encoding
\* of images (one entry per image, encoded strings as they are), and emits exactly
\* one emit_update_image_gallery with the gallery's name and that sequence; an update
\* whose images cannot be encoded raises and changes nothing.
C14_GalleryUpdate ==
    last.op = "ImageGallery.update" =>
        IF last.outcome = "returned"
        THEN /\ objs[last.o].selected_index = PyNone
             /\ objs[last.o].current_page = PyInt(0)
             /\ value(objs[last.o]) = PyNone
             /\ objs[last.o].images = process_images(last.payload).xs
             /\ Len(objs[last.o].images) =
                   IF last.payload.t = "list" THEN Len(last.payload.xs) ELSE 1
             /\ last.payload.t = "str" => objs[last.o].images = <<last.payload.s>>
             /\ last.emits = <<emit_update_image_gallery(last.pre.name,
                                                         objs[last.o].images)>>
        ELSE /\ objs[last.o] = last.pre
             /\ last.emits = <<>>

\* an update, with an array to encode, of a gallery that had a selection and showed
\* page 1
C14_Witness ==
    /\ last.op = "ImageGallery.update"
    /\ last.outcome = "returned"
    /\ last.pre.selected_index = PyInt(5)
    /\ last.pre.current_page = PyInt(1)
    /\ objs[last.o].images = <<"data:0", "data:image/png;base64,gray">>

\* C16: a handle_event that returns gives back what the bound callback returned for
\* the event when it invoked one, and None when no callback is bound.
C16_ReturnsCallbackResult ==
    (last.op = "handle_event" /\ last.outcome = "returned") =>
        IF last.calls # <<>>
        THEN last.ret = last.calls[1].result
        ELSE last.ret = PyNone

(***************************************************************************)
(* SpecRegistry: the registry viewer.ui_controls under creation, deletion  *)
(* and dispatch of inbound events                                          *)
(***************************************************************************)
MaxObjs == 3
MaxEvents == 2

\* viewer.get(name): the object registered under name, 0 for "not found"
lookup(name) == ui_controls[name]

\* the viewer registers a newly constructed control c under its name, replacing any
\* entry already there
create(c) ==
    /\ Len(objs) < MaxObjs
    /\ objs' = Append(objs, c)
    /\ ui_controls' = [ui_controls EXCEPT ![c.name] = Len(objs) + 1]
    /\ last' = [op |-> "create", o |-> Len(objs) + 1, payload |-> PyNone, pre |-> c,
                ui |-> ui_controls, outcome |-> "returned", ret |-> PyNone,
                calls |-> <<>>, emits |-> <<>>]
    /\ UNCHANGED <<queue, run, arrived, handles>>

\* mutant: nothing is emitted when the entry is already absent
delete_OnlyIfPresent(o) ==
    /\ ui_controls' = delete_entry(ui_controls, objs[o].name)
    /\ objs' = objs
    /\ last' = Done("delete", o, PyNone, "returned", PyNone, <<>>,
                    IF ui_controls[objs[o].name] # 0
                    THEN <<emit_delete_control(objs[o].name)>> ELSE <<>>)

\* mutant: the deleted control's name is taken out of every group's member list
delete_Unlink(o) ==
    /\ ui_controls' = delete_entry(ui_controls, objs[o].name)
    /\ objs' = [g \in 1..Len(objs) |->
                  IF objs[g].kind = "group"
                  THEN [objs[g] EXCEPT !.controls =
                           SelectSeq(@, LAMBDA n : n # objs[o].name)]
                  ELSE objs[g]]
    /\ last' = Done("delete", o, PyNone, "returned", PyNone, <<>>,
                    <<emit_delete_control(objs[o].name)>>)

\* mutant: deleting a group unregisters its members too
delete_Cascade(o) ==
    /\ ui_controls' =
          [n \in DOMAIN ui_controls |->
             IF n = objs[o].name THEN 0
             ELSE IF objs[o].kind = "group"
                     /\ \E i \in 1..Len(objs[o].controls) : objs[o].controls[i] = n
             THEN 0
             ELSE ui_controls[n]]
    /\ objs' = objs
    /\ last' = Done("delete", o, PyNone, "returned", PyNone, <<>>,
                    <<emit_delete_control(objs[o].name)>>)

\* UIControl.delete, on any control object the application holds
delete(o) ==
    /\ ui_controls' = delete_entry(ui_controls, objs[o].name)
    /\ objs' = objs
    /\ last' = Done("delete", o, PyNone, "returned", PyNone, <<>>,
                    <<emit_delete_control(objs[o].name)>>)

\* the transport delivers an inbound event for the control named name
Arrive(name, v) ==
    /\ arrived < MaxEvents
    /\ arrived' = arrived + 1
    /\ queue' = Append(queue, [id |-> arrived + 1, name |-> name, payload |-> v])
    /\ UNCHANGED <<objs, ui_controls, run, handles, last>>

\* control.handle_event(v) on whatever class the object has
handle_event(o, v, cb) ==
    \/ Group_handle_event(o, v, cb)
    \/ Slider_handle_event(o, v, cb)
    \/ Button_handle_event(o, v, cb)
    \/ Label_handle_event(o, v, cb)
    \/ Checkbox_handle_event(o, v, cb)
    \/ Dropdown_handle_event(o, v, cb)
    \/ DownloadButton_handle_event(o, v, cb)
    \/ ColorPicker_handle_event(o, v, cb)
    \/ PlotlyPlot_handle_event(o, v, cb)
    \/ ImageGallery_handle_event(o, v, cb)

\* an event for a name that is not registered: nothing happens
Dropped(e) ==
    [op |-> "drop", o |-> 0, payload |-> e.payload, pre |-> PyNone, ui |-> ui_controls,
     outcome |-> "dropped", ret |-> PyNone, calls |-> <<>>, emits |-> <<>>,
     name |-> e.name, id |-> e.id]

\* the dispatcher takes the oldest event, looks its control up and calls handle_event
Dispatch(cb) ==
    /\ queue # <<>>
    /\ run = {}
    /\ queue' = Tail(queue)
    /\ UNCHANGED <<run, arrived, handles>>
    /\ IF lookup(Head(queue).name) = 0
       THEN /\ UNCHANGED <<objs, ui_controls>>
            /\ last' = Dropped(Head(queue))
       ELSE handle_event(lookup(Head(queue).name), Head(queue).payload, cb)

RegistryCallbacks == {Callback("none", PyNone), Callback("delete_self", PyNone)}

InitRegistry ==
    /\ objs = <<>>
    /\ ui_controls = [n \in Names |-> 0]
    /\ queue = <<>>
    /\ run = {}
    /\ arrived = 0
    /\ handles = <<>>
    /\ last = NoOp(ui_controls)

NextRegistry ==
    \/ \E n \in Names : create(Button(TRUE, n))
    \/ \E n \in Names : create(Checkbox(FALSE, n, PyBool(FALSE), ""))
    \/ \E o \in 1..Len(objs) : delete(o) /\ Direct
    \/ \E n \in Names : Arrive(n, PyBool(TRUE))
    \/ \E cb \in RegistryCallbacks : Dispatch(cb)

SpecRegistry == InitRegistry /\ [][NextRegistry]_vars

(***************************************************************************)
(* Properties of the registry (SpecRegistry)                               *)
(***************************************************************************)
\* the last operation ran delete() on its control: a delete() call, or a handle_event
\* whose callback deleted the control it is bound to
Deleted ==
    \/ last.op = "delete"
    \/ last.op = "handle_event" /\ last.calls # <<>> /\ last.calls[1].effect = "delete_self"

\* C4: delete() leaves the registry as it was except that nothing is registered under
\* the control's name, whether or not an entry was there, raises nothing, and emits
\* exactly one deletion notice with the control's name; so does a delete() issued
\* from the control's own callback.
C4_DeleteIdempotent ==
    Deleted =>
        /\ ui_controls = [last.ui EXCEPT ![last.pre.name] = 0]
        /\ last.outcome = "returned"
        /\ last.emits = <<emit_delete_control(last.pre.name)>>

\* a second delete(): the entry was already absent
C4_Witness ==
    /\ last.op = "delete"
    /\ last.ui[last.pre.name] = 0
    /\ \E i \in 1..Len(objs) : objs[i].kind = "button"

\* C5, in a state: after a creation, lookup of the name gives the newly created
\* object in its constructed state; after a deletion, lookup of the name gives
\* "not found".
C5_State ==
    /\ last.op = "create" =>
          /\ last.o = Len(objs)
          /\ lookup(last.pre.name) = last.o
          /\ objs[lookup(last.pre.name)] = last.pre
    /\ Deleted => lookup(last.pre.name) = 0

\* C5, in a step: a name's entry changes to an object only by the creation of a new
\* object under that name, so a deleted control is never looked up again.
C5_Step ==
    \A n \in Names :
        (lookup(n)' # lookup(n) /\ lookup(n)' # 0) =>
            /\ last'.op = "create"
            /\ last'.pre.name = n
            /\ lookup(n)' = Len(objs) + 1
            /\ Len(objs') = Len(objs) + 1

\* C5: two creations under one name leave the second creation's object registered,
\* delete followed by lookup gives "not found", and a name stays "not found" until a
\* control is created under it.
C5_LastWriteWins == []C5_State /\ [][C5_Step]_vars

\* a second control was created under a name that was registered, and the first had
\* changed its state
C5_Witness ==
    /\ last.op = "create"
    /\ last.ui[last.pre.name] # 0
    /\ objs[last.ui[last.pre.name]].kind = "checkbox"
    /\ objs[last.ui[last.pre.name]].checked = PyBool(TRUE)
    /\ last.pre.kind = "checkbox"

\* the step dispatches the oldest inbound event
DispatchStep == queue # <<>> /\ queue' = Tail(queue)

\* C6: the dispatch of an event whose name is not registered changes no control and
\* no registry entry, invokes no callback, emits nothing and raises nothing; and a
\* step that runs delete() leaves the name unregistered, so that events in flight for
\* it are dropped.
C6_Step ==
    /\ (DispatchStep /\ lookup(Head(queue).name) = 0) =>
          /\ objs' = objs
          /\ ui_controls' = ui_controls
          /\ last'.op = "drop"
          /\ last'.calls = <<>>
          /\ last'.emits = <<>>
          /\ last'.outcome = "dropped"
    /\ Deleted' => ui_controls'[last'.pre.name] = 0

C6_UnknownNameDropped == [][C6_Step]_vars

\* an event was dropped whose control had been created and then deleted while the
\* event was in flight
C6_Witness ==
    /\ last.op = "drop"
    /\ \E i \in 1..Len(objs) : objs[i].name = last.name

(***************************************************************************)
(* SpecSeq: the dispatcher and handle_event statement by statement. An     *)
(* activation [id, o, v, pc] is a handle_event call in progress for the    *)
(* event numbered id; pc names the statement it executes next.             *)
(***************************************************************************)
\* mutant: the dispatcher does not wait for the running handler
Idle_Always == TRUE

\* the session's dispatcher is free: no handle_event is in progress
Idle == run = {}

\* handle_event returns or raises: the activation ends
Return(a, outcome, ret, calls, emits) ==
    /\ run' = run \ {a}
    /\ last' = [op |-> "handle_event", o |-> a.o, payload |-> a.v, pre |-> objs[a.o],
                ui |-> ui_controls, outcome |-> outcome, ret |-> ret, calls |-> calls,
                emits |-> emits, id |-> a.id]

\* the dispatcher takes the oldest event and, if its control is registered, enters
\* the control's handle_event
Start ==
    /\ queue # <<>>
    /\ Idle
    /\ queue' = Tail(queue)
    /\ UNCHANGED <<objs, ui_controls, arrived, handles>>
    /\ IF lookup(Head(queue).name) = 0
       THEN /\ last' = Dropped(Head(queue))
            /\ run' = run
       ELSE /\ last' = last
            /\ run' = run \cup {[id |-> Head(queue).id, o |-> lookup(Head(queue).name),
                                  v |-> Head(queue).payload, pc |-> "enter",
                                  data |-> PyNone]}

\* Slider.handle_event, line 87
Slider_store(a) ==
    /\ a.pc = "enter"
    /\ objs[a.o].kind = "slider"
    /\ UNCHANGED <<ui_controls, queue, arrived, handles>>
    /\ IF IsExc(float(a.v))
       THEN /\ objs' = objs
            /\ Return(a, "DecodeError", float(a.v), <<>>, <<>>)
       ELSE /\ objs' = [objs EXCEPT ![a.o].current_value = float(a.v)]
            /\ IF objs[a.o].callback
               THEN /\ run' = (run \ {a}) \cup {[a EXCEPT !.pc = "callback"]}
                    /\ last' = last
               ELSE Return(a, "returned", PyNone, <<>>, <<>>)

\* Slider.handle_event, lines 88-89
Slider_call(a, cb) ==
    /\ a.pc = "callback"
    /\ objs[a.o].kind = "slider"
    /\ UNCHANGED <<objs, queue, arrived, handles>>
    /\ LET i == Invoke(objs, ui_controls, a.o, <<Viewer, objs[a.o].current_value>>, cb)
       IN /\ ui_controls' = i.ui
          /\ Return(a, IF IsExc(i.result) THEN "CallbackError" ELSE "returned",
                    i.result, <<i.call>>, i.emits)

\* DownloadButton.handle_event, lines 236-242
DownloadButton_call(a, cb) ==
    /\ a.pc = "enter"
    /\ objs[a.o].kind = "download_button"
    /\ UNCHANGED <<objs, queue, arrived, handles>>
    /\ LET i == Invoke(objs, ui_controls, a.o, <<Viewer>>, cb) IN
       IF ~objs[a.o].callback
       THEN /\ ui_controls' = ui_controls
            /\ Return(a, "returned", PyNone, <<>>, <<>>)
       ELSE /\ ui_controls' = i.ui
            /\ IF IsExc(i.result)
               THEN Return(a, "CallbackError", i.result, <<i.call>>, i.emits)
               ELSE IF i.result = PyNone
               THEN Return(a, "returned", PyNone, <<i.call>>, i.emits)
               ELSE IF IsExc(download_data(i.result))
               THEN Return(a, "Error", download_data(i.result), <<i.call>>, i.emits)
               ELSE /\ run' = (run \ {a}) \cup
                                {[a EXCEPT !.pc = "emit", !.data = download_data(i.result)]}
                    /\ last' = last

\* DownloadButton.handle_event, line 243
DownloadButton_emit(a) ==
    /\ a.pc = "emit"
    /\ objs[a.o].kind = "download_button"
    /\ UNCHANGED <<objs, ui_controls, queue, arrived, handles>>
    /\ Return(a, "returned", PyNone, <<>>,
              <<emit_download_file(a.data, objs[a.o].filename)>>)

InitSeq ==
    /\ objs = <<Slider(TRUE, "a", PyFloat(0), PyFloat(1), PyFloat(1), PyFloat(0), ""),
               DownloadButton(TRUE, "b", "download.bin")>>
    /\ ui_controls = [n \in Names |-> IF n = "a" THEN 1 ELSE 2]
    /\ queue = <<>>
    /\ run = {}
    /\ arrived = 0
    /\ handles = <<>>
    /\ last = NoOp(ui_controls)

NextSeq ==
    \/ \E n \in Names, v \in {PyInt(1), PyStr("abc")} : Arrive(n, v)
    \/ Start
    \/ \E a \in run : Slider_store(a)
    \/ \E a \in run, cb \in Callbacks : Slider_call(a, cb)
    \/ \E a \in run, cb \in DownloadCallbacks : DownloadButton_call(a, cb)
    \/ \E a \in run : DownloadButton_emit(a)
    \/ \E o \in 1..Len(objs) : Idle /\ delete(o) /\ Direct

SpecSeq == InitSeq /\ [][NextSeq]_vars

\* the number of events whose processing is over
Processed == arrived - Len(queue) - Cardinality(run)

\* C7, in a step: the dispatcher takes an event only when no handle_event is in
\* progress, so the decoding, callback and emissions of the events before it are
\* over, and the event it takes is the oldest one not yet processed.
C7_Step ==
    DispatchStep => (run = {} /\ Head(queue).id = Processed + 1)

\* C7: inbound events are processed one at a time, in arrival order; two
\* handle_event executions never overlap.
C7_OneAtATime == [](Cardinality(run) <= 1) /\ [][C7_Step]_vars

\* a second event waits in the queue while the first one's handler is between its
\* callback and its emission
C7_Witness ==
    /\ queue # <<>>
    /\ \E a \in run : a.pc = "emit"

(***************************************************************************)
(* SpecGroup: two groups and two controls under Group.add_control          *)
(***************************************************************************)
MaxMembers == 3

\* Group.add_control(control), with g the group and c the control
add_control(g, c) ==
    /\ objs[g].kind = "group"
    /\ Len(objs[g].controls) < MaxMembers
    /\ objs' = [objs EXCEPT ![c].group = PyStr(objs[g].name),
                            ![g].controls = Append(@, objs[c].name)]
    /\ last' = [op |-> "add_control", o |-> g, member |-> c, pre |-> objs[g],
                outcome |-> "returned"]
    /\ UNCHANGED <<ui_controls, queue, run, arrived, handles>>

GroupNames == {"g", "h", "a", "b"}

InitGroup ==
    /\ objs = <<Group("g", FALSE), Group("h", TRUE), Button(TRUE, "a"),
                Checkbox(FALSE, "b", PyBool(FALSE), "")>>
    /\ ui_controls = [n \in GroupNames |->
                        CHOOSE o \in 1..Len(objs) : objs[o].name = n]
    /\ queue = <<>>
    /\ run = {}
    /\ arrived = 0
    /\ handles = <<>>
    /\ last = [op |-> "none"]

\* the controls that are put into groups
Leaves == {c \in 1..Len(objs) : objs[c].kind # "group"}

NextGroup ==
    \E g \in 1..Len(objs), c \in Leaves : add_control(g, c)

SpecGroup == InitGroup /\ [][NextGroup]_vars

\* the number of times name x occurs in the sequence xs
Count(xs, x) == Cardinality({i \in 1..Len(xs) : xs[i] = x})

\* the objects with a name in group g's member list: the controls added to g
Members(g) ==
    {c \in 1..Len(objs) : \E i \in 1..Len(objs[g].controls) :
                              objs[g].controls[i] = objs[c].name}

\* C10, in a state: every control added to a group has the group's name in its
\* serialized envelope, and its name occurs exactly once in the group's serialized
\* controls.
C10_State ==
    \A g \in 1..Len(objs) :
        objs[g].kind = "group" =>
            \A c \in Members(g) :
                /\ "group" \in DOMAIN to_dict(objs[c])
                /\ to_dict(objs[c]).group = PyStr(objs[g].name)
                /\ Count(to_dict(objs[g]).controls, objs[c].name) = 1

\* C10, in a step: add_control puts the name at the end of the serialized controls.
C10_Step ==
    \A g \in 1..Len(objs) :
        (objs[g].kind = "group" /\ to_dict(objs[g])' # to_dict(objs[g])) =>
            /\ last'.op = "add_control"
            /\ to_dict(objs[g])'.controls =
                   Append(to_dict(objs[g]).controls, objs[last'.member].name)

\* C10: after any sequence of add_control calls every added control's envelope names
\* the group, and the group's serialized controls hold each added control's name
\* exactly once, in insertion order.
C10_GroupMembership == []C10_State /\ [][C10_Step]_vars

(***************************************************************************)
(* SpecMembers: two groups, a label and a checkbox under add_control,      *)
(* handle_event, update, delete and to_dict                                *)
(***************************************************************************)
\* control.to_dict(), called by the application or the transport
serialize(o) ==
    /\ UNCHANGED <<objs, ui_controls>>
    /\ last' = [op |-> "to_dict", o |-> o, pre |-> objs[o], ret |-> to_dict(objs[o]),
                outcome |-> "returned"]

MemberNames == {"g", "h", "a", "b"}

InitMembers ==
    /\ objs = <<Group("g", FALSE), Group("h", TRUE), Label(FALSE, "a", PyStr("")),
                Checkbox(TRUE, "b", PyBool(FALSE), "")>>
    /\ ui_controls = [n \in MemberNames |->
                        CHOOSE o \in 1..Len(objs) : objs[o].name = n]
    /\ queue = <<>>
    /\ run = {}
    /\ arrived = 0
    /\ handles = <<>>
    /\ last = [op |-> "none"]

\* the groups, and the number of add_control calls made so far
Groups == {g \in 1..Len(objs) : objs[g].kind = "group"}
Added == Len(objs[1].controls) + Len(objs[2].controls)
MaxAdded == 2

NextMembers ==
    \/ \E g \in Groups, c \in 1..Len(objs) :
           /\ c # g
           /\ Added < MaxAdded
           /\ add_control(g, c)
    \/ \E o \in 1..Len(objs) :
           handle_event(o, PyBool(TRUE), Callback("none", PyNone)) /\ Direct
    \/ \E o \in 1..Len(objs) :
           Label_update(o, PyStr("hi"), Callback("none", PyNone)) /\ Direct
    \/ \E o \in 1..Len(objs) : delete(o) /\ Direct
    \/ \E o \in 1..Len(objs) : serialize(o) /\ Direct

SpecMembers == InitMembers /\ [][NextMembers]_vars

\* xs is a prefix of ys
IsPrefix(xs, ys) == Len(xs) <= Len(ys) /\ SubSeq(ys, 1, Len(xs)) = xs

\* C11, in a step: each group's earlier member list is a prefix of its later one, and
\* a step that is not add_control, a deletion of a member included, leaves every
\* member list as it was.
C11_Step ==
    \A g \in Groups :
        /\ IsPrefix(objs[g].controls, objs[g].controls')
        /\ last'.op # "add_control" => objs[g].controls' = objs[g].controls

\* C11: a Group's member list only grows under add_control, handle_event, update and
\* delete; deleting a member control leaves its name in Group.controls.
C11_MembersOnlyGrow == [][C11_Step]_vars

\* a member of a group was deleted and its name is still in the group's list
C11_Witness ==
    /\ last.op = "delete"
    /\ last.pre.kind # "group"
    /\ ui_controls[last.pre.name] = 0
    /\ \E g \in Groups : Count(objs[g].controls, last.pre.name) > 0

\* C12, in a step: delete() on a group changes no control object, so that every
\* member keeps its state and its group reference, and removes from the registry the
\* entry under the group's name and no other.
C12_Step ==
    (last'.op = "delete" /\ last'.pre.kind = "group") =>
        /\ objs' = objs
        /\ ui_controls' = [ui_controls EXCEPT ![last'.pre.name] = 0]
        /\ \A c \in 1..Len(objs) :
              (objs[c].group = PyStr(last'.pre.name) /\ objs[c].name # last'.pre.name) =>
                  /\ ui_controls'[objs[c].name] = ui_controls[objs[c].name]
                  /\ objs'[c].group = PyStr(last'.pre.name)

\* C12: deleting a Group has no cascade.
C12_NoCascade == [][C12_Step]_vars

\* a group with a registered member that had changed its state was deleted: the
\* member is registered, in that state, and names the deleted group
C12_Witness ==
    /\ last.op = "delete"
    /\ last.pre.kind = "group"
    /\ last.ui[last.pre.name] # 0
    /\ objs[4].group = PyStr(last.pre.name)
    /\ Count(last.pre.controls, "b") = 1
    /\ objs[4].checked = PyBool(TRUE)
    /\ ui_controls["b"] = 4

\* C15, in a state: the mapping to_dict returned has id and name equal to the
\* control's name and type equal to the variant's tag, and has the group's name under
\* group exactly when the control's group reference is set.
C15_State ==
    last.op = "to_dict" =>
        /\ last.ret.id = last.pre.name
        /\ last.ret.name = last.pre.name
        /\ last.ret.type = last.pre.kind
        /\ IF last.pre.group # PyNone
           THEN "group" \in DOMAIN last.ret /\ last.ret.group = last.pre.group
           ELSE "group" \notin DOMAIN last.ret

\* C15, in a step: to_dict changes no control and no registry entry.
C15_Step == last'.op = "to_dict" => (objs' = objs /\ ui_controls' = ui_controls)

\* C15: for every variant, Group included, to_dict includes the owning group's name
\* whenever add_control set the group reference and omits it otherwise, has id =
\* name and the variant's type tag, and changes no control state.
C15_SerializeGroupField == []C15_State /\ [][C15_Step]_vars

(***************************************************************************)
(* SpecHeadless: panopti/headless.py. handles[h] is the h-th call of       *)
(* launch: whether it returned a HeadlessBrowser, whether close() has      *)
(* returned on it, and the Playwright resources it acquired: the driver pw *)
(* ("none", "running", "stopped") and the browser, context and page        *)
(* ("none", "open", "closed").                                             *)
(***************************************************************************)
MaxHandles == 2

\* what launch has before it acquires anything
NoResources ==
    [returned |-> FALSE, closed |-> FALSE, pw |-> "none", browser |-> "none",
     ctx |-> "none", page |-> "none"]

\* the steps of launch that can fail: the import of playwright (lines 41-50),
\* sync_playwright().start() (52), pw.chromium.launch (54), browser.new_context (68),
\* ctx.new_page (69), page.goto (70)
LaunchFailures == {"none", "import", "start", "chromium", "context", "page", "goto"}

\* the outcome of one call into Playwright
CallResults == {"ok", "raise"}

\* the resources after launch, when the step fail raised ("none": no step did)
launched(fail) ==
    CASE fail \in {"import", "start"} -> NoResources
      [] fail = "chromium" -> [NoResources EXCEPT !.pw = "stopped"]
      [] fail = "context" -> [NoResources EXCEPT !.pw = "running", !.browser = "open"]
      [] fail = "page" ->
            [NoResources EXCEPT !.pw = "running", !.browser = "open", !.ctx = "open"]
      [] fail = "goto" ->
            [NoResources EXCEPT !.pw = "running", !.browser = "open", !.ctx = "open",
                                !.page = "open"]
      [] fail = "none" ->
            [NoResources EXCEPT !.returned = TRUE, !.pw = "running", !.browser = "open",
                                !.ctx = "open", !.page = "open"]

\* launch(url, width, height)
launch(fail) ==
    /\ Len(handles) < MaxHandles
    /\ handles' = Append(handles, launched(fail))
    /\ last' = [op |-> "launch", h |-> Len(handles) + 1, fail |-> fail,
                pre |-> NoResources, calls |-> <<>>,
                outcome |-> CASE fail = "none" -> "returned"
                              [] fail \in {"import", "chromium"} -> "RuntimeError"
                              [] OTHER -> "Error"]
    /\ UNCHANGED <<objs, ui_controls, queue, run, arrived>>

\* self.browser.close(): when it returns the browser, its contexts and pages are closed
browser_close(r, result) ==
    IF result = "ok" /\ r.browser = "open"
    THEN [r EXCEPT !.browser = "closed", !.ctx = "closed", !.page = "closed"]
    ELSE r

\* self.pw.stop(): when it returns the driver has exited, and the browser with it
pw_stop(r, result) ==
    IF result = "ok" /\ r.pw = "running"
    THEN [browser_close(r, "ok") EXCEPT !.pw = "stopped"]
    ELSE r

\* one call into Playwright made by close(), with the resource's state before it
Release(call, on, result) == [call |-> call, on |-> on, result |-> result]

\* mutant: pw.stop() is not in a finally clause
close_NoFinally(h, r1, r2) ==
    /\ handles[h].returned
    /\ handles' = [handles EXCEPT ![h] =
          IF r1 = "raise" THEN handles[h]
          ELSE [pw_stop(browser_close(handles[h], r1), r2) EXCEPT
                   !.closed = @ \/ r2 = "ok"]]
    /\ last' = [op |-> "close", h |-> h, pre |-> handles[h],
                calls |-> IF r1 = "raise"
                          THEN <<Release("browser.close", handles[h].browser, r1)>>
                          ELSE <<Release("browser.close", handles[h].browser, r1),
                                 Release("pw.stop", handles[h].pw, r2)>>,
                outcome |-> IF r1 = "ok" /\ r2 = "ok" THEN "returned" ELSE "Error"]
    /\ UNCHANGED <<objs, ui_controls, queue, run, arrived>>

\* mutant: close() only marks the handle and releases nothing
close_MarkOnly(h, r1, r2) ==
    /\ handles[h].returned
    /\ handles' = [handles EXCEPT ![h].closed = TRUE]
    /\ last' = [op |-> "close", h |-> h, pre |-> handles[h], calls |-> <<>>,
                outcome |-> "returned"]
    /\ UNCHANGED <<objs, ui_controls, queue, run, arrived>>

\* HeadlessBrowser.close on a handle launch returned; r1 and r2 are the results of
\* browser.close() and pw.stop(). Both fields stay set after close(), so every call
\* of close() makes both calls; an exception leaves close() after the finally clause.
close(h, r1, r2) ==
    /\ handles[h].returned
    /\ handles' = [handles EXCEPT ![h] =
          [pw_stop(browser_close(handles[h], r1), r2) EXCEPT
              !.closed = @ \/ (r1 = "ok" /\ r2 = "ok")]]
    /\ last' = [op |-> "close", h |-> h, pre |-> handles[h],
                calls |-> <<Release("browser.close", handles[h].browser, r1),
                            Release("pw.stop", handles[h].pw, r2)>>,
                outcome |-> IF r1 = "ok" /\ r2 = "ok" THEN "returned" ELSE "Error"]
    /\ UNCHANGED <<objs, ui_controls, queue, run, arrived>>

\* the handle can take captures: its page is open and its driver runs
Ready(r) == r.returned /\ r.page = "open" /\ r.pw = "running"

\* a capture or navigation issued through the handle's page
capture(h) ==
    /\ handles[h].returned
    /\ handles' = handles
    /\ last' = [op |-> "capture", h |-> h, pre |-> handles[h], calls |-> <<>>,
                outcome |-> IF Ready(handles[h]) THEN "returned" ELSE "CallerError"]
    /\ UNCHANGED <<objs, ui_controls, queue, run, arrived>>

InitHeadless ==
    /\ objs = <<>>
    /\ ui_controls = [n \in Names |-> 0]
    /\ queue = <<>>
    /\ run = {}
    /\ arrived = 0
    /\ handles = <<>>
    /\ last = [op |-> "none"]

NextHeadless ==
    \/ \E fail \in LaunchFailures : launch(fail)
    \/ \E h \in 1..Len(handles), r1 \in CallResults, r2 \in CallResults : close(h, r1, r2)
    \/ \E h \in 1..Len(handles) : capture(h)

SpecHeadless == InitHeadless /\ [][NextHeadless]_vars

(***************************************************************************)
(* Properties of the headless handle (SpecHeadless)                        *)
(***************************************************************************)
\* every call the last close() made on a resource still in use returned
LiveReleasesReturned ==
    \A i \in 1..Len(last.calls) :
        last.calls[i].on \in {"open", "running"} => last.calls[i].result = "ok"

\* C17: close() does not raise unless the release of a resource in use fails: the
\* close() right after launch returns, a second close() on the same handle returns
\* too, and the handle is then closed.
C17_CloseIdempotent ==
    (last.op = "close" /\ LiveReleasesReturned) =>
        /\ last.outcome = "returned"
        /\ handles[last.h].closed
        /\ ~Ready(handles[last.h])

\* C18: every close() calls browser.close() first and pw.stop() second, and calls
\* pw.stop() whether browser.close() returned or raised; a pw.stop() that returns
\* leaves the driver stopped and no browser open.
C18_CloseOrder ==
    last.op = "close" =>
        /\ Len(last.calls) = 2
        /\ last.calls[1].call = "browser.close"
        /\ last.calls[2].call = "pw.stop"
        /\ last.calls[2].result = "ok" =>
              /\ handles[last.h].pw = "stopped"
              /\ handles[last.h].browser = "closed"

\* browser.close() raised on an open browser, and pw.stop() was called and stopped the
\* driver
C18_Witness ==
    /\ last.op = "close"
    /\ last.calls[1] = Release("browser.close", "open", "raise")
    /\ last.calls[2] = Release("pw.stop", "running", "ok")
    /\ last.outcome = "Error"
    /\ handles[last.h].pw = "stopped"

\* C19: a launch that fails leaves no resource it acquired in use: neither the driver
\* running nor the browser open.
C19_LaunchReleasesOnFailure ==
    (last.op = "launch" /\ last.outcome # "returned") =>
        /\ handles[last.h].pw # "running"
        /\ handles[last.h].browser # "open"
        /\ handles[last.h].ctx # "open"
        /\ handles[last.h].page # "open"

\* C20, in a state: a handle on which close() has returned is not Ready, and a capture
\* issued on it fails with a caller error.
C20_State ==
    /\ \A h \in 1..Len(handles) : handles[h].closed => ~Ready(handles[h])
    /\ (last.op = "capture" /\ last.pre.closed) => last.outcome = "CallerError"

\* C20, in a step: a closed handle stays closed and does not become Ready.
C20_Step ==
    \A h \in 1..Len(handles) :
        handles[h].closed => (handles[h].closed' /\ ~Ready(handles[h])')

\* C20: once close() has returned on a handle, every capture or navigation issued on
\* it fails with a caller error, and the handle never is Ready again.
C20_NoUseAfterClose == []C20_State /\ [][C20_Step]_vars

\* a capture was issued on a handle after close() had returned on it, while another
\* handle was Ready
C20_Witness ==
    /\ last.op = "capture"
    /\ last.pre.closed
    /\ \E h \in 1..Len(handles) : Ready(handles[h])

\* C21: launch either returns a handle that is Ready, or fails with the RuntimeError
\* launch itself raises, for a missing playwright or for a failed engine launch; no
\* other exception leaves launch.
C21_LaunchOutcomes ==
    last.op = "launch" =>
        \/ last.outcome = "returned" /\ Ready(handles[last.h])
        \/ last.outcome = "RuntimeError" /\ last.fail \in {"import", "chromium"}

\* C30: the browser and the driver of a handle are released by at most one close():
\* a close() on a handle on which close() has already returned makes no release call.
C30_ReleasedAtMostOnce ==
    (last.op = "close" /\ last.pre.closed) => last.calls = <<>>

(***************************************************************************)
(* Further properties of one control (Spec)                                *)
(***************************************************************************)
\* the files the last operation handed to emit_download_file
FileEmissions == {i \in 1..Len(last.emits) : last.emits[i].emit = "download_file"}

\* C22: DownloadButton.handle_event hands only non-empty data to emit_download_file:
\* a callback that returned zero bytes leads to no emission, as one that returned
\* None.
C22_NoEmptyDownload ==
    (last.op = "handle_event" /\ last.pre.kind = "download_button") =>
        /\ \A i \in FileEmissions : last.emits[i].data.s # ""
        /\ (last.calls # <<>> /\ last.calls[1].result \in {PyNone, PyBytes("")}) =>
              FileEmissions = {}

\* C27: the selected_index of an ImageGallery is None or an index into its current
\* image sequence.
C27_SelectedIndexInRange ==
    \A o \in 1..Len(objs) :
        (objs[o].kind = "image_gallery" /\ objs[o].selected_index # PyNone) =>
            /\ 0 <= objs[o].selected_index.n
            /\ objs[o].selected_index.n < Len(objs[o].images)

\* C28, in a step: no operation on a Slider, Checkbox, Dropdown or ColorPicker
\* changes what its to_dict() returns.
C28_Step ==
    \A o \in 1..Len(objs) :
        objs[o].kind \in ValueKinds => to_dict(objs[o])' = to_dict(objs[o])

\* C28: the envelope of a Slider, Checkbox, Dropdown or ColorPicker is not changed by
\* any sequence of handle_event calls: it carries the initial value, never the
\* current one.
C28_EnvelopeUnchanged == [][C28_Step]_vars

\* a handle_event has changed the value of a control away from its initial value
C28_Witness ==
    /\ ValueEvent
    /\ last.outcome = "returned"
    /\ value(objs[last.o]) # value(last.pre)
    /\ value(objs[last.o]) # objs[last.o].initial
    /\ to_dict(objs[last.o]).initial # value(objs[last.o])

\* C29: an ImageGallery.update(images) that fails while it encodes the images leaves
\* the image sequence, selected_index and current_page as they were and emits
\* nothing.
C29_FailedUpdate ==
    (last.op = "ImageGallery.update" /\ last.outcome # "returned") =>
        /\ IsExc(last.ret)
        /\ objs[last.o].images = last.pre.images
        /\ objs[last.o].selected_index = last.pre.selected_index
        /\ objs[last.o].current_page = last.pre.current_page
        /\ last.emits = <<>>

\* an update with an image of two channels failed on a gallery that had a selection
\* and showed page 1
C29_Witness ==
    /\ last.op = "ImageGallery.update"
    /\ last.outcome = "Error"
    /\ last.payload = PyList(<<PyStr("data:0"), Image(3, 2, "two")>>)
    /\ objs[last.o].selected_index = PyInt(0)
    /\ objs[last.o].current_page = PyInt(1)

(***************************************************************************)
(* Further properties of the registry (SpecRegistry) and of groups         *)
(* (SpecGroup)                                                             *)
(***************************************************************************)
\* C24: delete() on a control object that is not the one registered under its name,
\* because a later control was created under the name, leaves the registry as it
\* was: the later control stays registered.
C24_DeleteShadowed ==
    (last.op = "delete" /\ last.ui[last.pre.name] \notin {0, last.o}) =>
        /\ ui_controls = last.ui
        /\ lookup(last.pre.name) = last.ui[last.pre.name]

\* the groups whose member list holds the name of control c
GroupsOf(c) ==
    {g \in 1..Len(objs) : objs[g].kind = "group" /\ Count(objs[g].controls, objs[c].name) > 0}

\* C26: the name of a registered control is in the member list of at most one group,
\* the group that the control's group reference names.
C26_OneGroupPerControl ==
    \A c \in 1..Len(objs) :
        ui_controls[objs[c].name] = c =>
            /\ Cardinality(GroupsOf(c)) <= 1
            /\ \A g \in GroupsOf(c) : objs[c].group = PyStr(objs[g].name)

(***************************************************************************)
(* SpecRace: handle_event called from several threads, with no dispatcher  *)
(* in between: the calls interleave statement by statement                 *)
(***************************************************************************)
\* a thread enters control.handle_event(v) on object o
Enter(o, v) ==
    /\ arrived < MaxEvents
    /\ arrived' = arrived + 1
    /\ run' = run \cup {[id |-> arrived + 1, o |-> o, v |-> v, pc |-> "enter",
                         data |-> PyNone]}
    /\ UNCHANGED <<objs, ui_controls, queue, handles, last>>

NextRace ==
    \/ \E o \in 1..Len(objs), v \in {PyInt(1), PyFloat(0), PyStr("abc")} : Enter(o, v)
    \/ \E a \in run : Slider_store(a)
    \/ \E a \in run, cb \in Callbacks : Slider_call(a, cb)
    \/ \E a \in run, cb \in DownloadCallbacks : DownloadButton_call(a, cb)
    \/ \E a \in run : DownloadButton_emit(a)

SpecRace == InitSeq /\ [][NextRace]_vars

\* C25: the value handle_event(v) passes to the callback is the decoding of v, the
\* payload of that same call, however the statements of two handle_event calls on
\* the control interleave.
C25_CallbackGetsOwnValue ==
    (last.op = "handle_event" /\ last.pre.kind \in ValueKinds /\ last.calls # <<>>) =>
        last.calls[1].args = <<Viewer, decode(last.pre.kind, last.payload)>>

(***************************************************************************)
(* SpecGallery: galleries constructed from images of every shape and       *)
(* registered by the viewer, then clicked and paged                        *)
(***************************************************************************)
MaxGalleries == 2

\* the images a gallery is constructed from: arrays of shape (H, W), (H, W, 1),
\* (H, W, 2), (H, W, 3), (H, W, 4), (H, W, 5), alone and in lists with encoded strings
GalleryInputs ==
    {Image(2, 0, "gray"), Image(3, 1, "one"), Image(3, 2, "two"), Image(3, 3, "rgb"),
     Image(3, 4, "rgba"), PyList(<<Image(3, 3, "rgb"), Image(3, 4, "rgba")>>),
     PyList(<<PyStr("data:0"), Image(3, 5, "five")>>)}

\* the viewer constructs ImageGallery(viewer, name, images) and registers it under
\* name; a constructor that raises leaves nothing to register
ImageGallery_new(name, images) ==
    /\ Len(objs) < MaxGalleries
    /\ UNCHANGED <<queue, run, arrived, handles>>
    /\ IF IsExc(process_images(images))
       THEN /\ UNCHANGED <<objs, ui_controls>>
            /\ last' = [op |-> "construct", o |-> 0, payload |-> images, pre |-> PyNone,
                        ui |-> ui_controls, n |-> Len(objs), outcome |-> "Error",
                        ret |-> process_images(images), calls |-> <<>>, emits |-> <<>>]
       ELSE /\ objs' = Append(objs, ImageGallery(name, process_images(images).xs,
                                                 PyInt(150), PyInt(3), PyNone, FALSE))
            /\ ui_controls' = [ui_controls EXCEPT ![name] = Len(objs) + 1]
            /\ last' = [op |-> "construct", o |-> Len(objs) + 1, payload |-> images,
                        pre |-> PyNone, ui |-> ui_controls, n |-> Len(objs),
                        outcome |-> "returned", ret |-> PyNone, calls |-> <<>>,
                        emits |-> <<>>]

NextGallery ==
    \/ \E n \in Names, images \in GalleryInputs : ImageGallery_new(n, images)
    \/ \E o \in 1..Len(objs),
          v \in {PyDict("imageClick", "index", 0), PyDict("pageChange", "page", 1)} :
           ImageGallery_handle_event(o, v, Callback("none", PyNone)) /\ Direct

SpecGallery == InitRegistry /\ [][NextGallery]_vars

\* the images of a construction argument, as a list
ImageList(images) == IF images.t = "list" THEN images.xs ELSE <<images>>

\* the number of channels of an array: one for a two-dimensional array
ChannelCount(img) == IF img.ndim = 2 THEN 1 ELSE img.channels

\* every array among the images has 1, 3 or 4 channels
ChannelsAccepted(images) ==
    \A i \in 1..Len(ImageList(images)) :
        ImageList(images)[i].t = "image" =>
            ChannelCount(ImageList(images)[i]) \in {1, 3, 4}

\* C23: the construction of an ImageGallery returns, with one encoded image per
\* input image, when every array among the images has 1, 3 or 4 channels, and fails
\* when one has another channel count; a failed construction leaves the control
\* objects and the registry as they were.
C23_ChannelCounts ==
    last.op = "construct" =>
        IF ChannelsAccepted(last.payload)
        THEN /\ last.outcome = "returned"
             /\ lookup(objs[last.o].name) = last.o
             /\ Len(objs[last.o].images) = Len(ImageList(last.payload))
        ELSE /\ last.outcome = "Error"
             /\ Len(objs) = last.n
             /\ ui_controls = last.ui

====
